---------------------------- MODULE Spec2Model ----------------------------
(***************************************************************************)
(* A model of the stuffed record stream: the word-stuffing codec           *)
(* (src/src/word_stuff.c) and the record stream built on it                *)
(* (src/src/record_stream.c).                                              *)
(*                                                                         *)
(* Byte strings are sequences of naturals in 0..255.  A pointer is an      *)
(* address (a natural); NULL is address 0.  A uint32_t is kept as its four *)
(* bytes in host (little-endian) order.                                    *)
(***************************************************************************)
EXTENDS Integers, Sequences, FiniteSets, TLC

VARIABLES
    pc,       \* position of the driver program
    kind,     \* which driver program this behaviour runs
    src,      \* codec: the input handed to the codec
    enc,      \* codec: result of crdb_word_stuff_encode
    dec,      \* codec: result of crdb_word_stuff_decode
    file,     \* stream: the bytes of the file behind the descriptor
    log,      \* stream: the (generation, payload) pairs appended, in order
    it,       \* stream: struct crdb_record_stream_iterator
    last,     \* stream: outputs of the latest next_buf call
    yielded,  \* stream: records returned by next_buf on the current iterator
    runs,     \* stream: the yielded lists of the iterators used before
    aborted,  \* stream: an assertion failed (the process is gone)
    aux       \* parameters of the scenario (split offset, damage done, ...)

vars == <<pc, kind, src, enc, dec, file, log, it, last, yielded, runs, aborted, aux>>

codecVars == <<src, enc, dec>>
streamVars == <<file, log, it, last, yielded, runs, aborted>>

-----------------------------------------------------------------------------
(* Generic helpers *)

Min(a, b) == IF a < b THEN a ELSE b

Max(a, b) == IF a < b THEN b ELSE a

Drop(s, n) == SubSeq(s, n + 1, Len(s))

Take(s, n) == SubSeq(s, 1, n)

Fill(n, b) == [i \in 1..n |-> b]

RECURSIVE SeqsUpTo(_, _)
\* every sequence over alphabet A of length at most n
SeqsUpTo(A, n) ==
    IF n = 0 THEN {<<>>}
    ELSE LET shorter == SeqsUpTo(A, n - 1)
         IN  shorter \cup {Append(s, a) : s \in {t \in shorter : Len(t) = n - 1}, a \in A}

NULL == 0

-----------------------------------------------------------------------------
(* word_stuff.c *)

RADIX == 253

MAX_INITIAL_RUN == RADIX - 1

MAX_REMAINING_RUN == (RADIX * RADIX) - 1

CACHE_LINE_SIZE == 64

CRDB_WORD_STUFF_HEADER_SIZE == 2

header == <<RADIX + 1, RADIX>>

\* The byte at 0-based offset i of buffer mem; -1 stands for a read outside it.
Load(mem, i) == IF i >= 0 /\ i < Len(mem) THEN mem[i + 1] ELSE -1

\* crdb_word_stuff_header_find(data, num) on the buffer `mem`, where `data`
\* is the 0-based offset of the range in mem.  Returns the offset (in mem)
\* of the first header in data[0 .. num - 1], or data + num.
\* crdb_word_stuff_header_find stopping its scan one position early.
header_find_short(mem, data, num) ==
    IF num < CRDB_WORD_STUFF_HEADER_SIZE THEN data + num
    ELSE LET hits == {i \in 0..(num - 3) :
                         /\ Load(mem, data + i) = header[1]
                         /\ Load(mem, data + i + 1) = header[2]}
         IN  IF hits = {} THEN data + num
             ELSE data + (CHOOSE i \in hits : \A j \in hits : i <= j)

crdb_word_stuff_header_find(mem, data, num) ==
    IF num < CRDB_WORD_STUFF_HEADER_SIZE THEN data + num
    ELSE LET num_prefix == num - 1
             hits == {i \in 0..(num_prefix - 1) :
                         /\ Load(mem, data + i) = header[1]
                         /\ Load(mem, data + i + 1) = header[2]}
         IN  IF hits = {} THEN data + num
             ELSE data + (CHOOSE i \in hits : \A j \in hits : i <= j)

\* memcpy(dst, src, n) from offset `from` of mem: the n bytes copied.
memcpy(mem, from, n) == [i \in 1..n |-> Load(mem, from + i - 1)]

\* short_memcpy copying the odd last byte of a run below 4 bytes to dst[0]
\* rather than to dst[n - 1].
short_memcpy_chunks_odd_at_start(n) ==
    IF n >= 8
    THEN {<<i, 8>> : i \in {k \in 0..(n - 8) : k < n - 8 /\ k % 8 = 0}}
             \cup {<<n - 8, 8>>}
    ELSE IF n >= 4 THEN {<<0, 4>>, <<n - 4, 4>>}
    ELSE (IF (n \div 2) % 2 = 1 THEN {<<0, 2>>} ELSE {})
             \cup (IF n % 2 = 1 THEN {<<0, 1>>} ELSE {})

\* The (offset, length) block copies short_memcpy(dst, src, n) performs
\* for n below a cache line.
short_memcpy_chunks(n) ==
    IF n >= 8
    THEN {<<i, 8>> : i \in {k \in 0..(n - 8) : k < n - 8 /\ k % 8 = 0}}
             \cup {<<n - 8, 8>>}
    ELSE IF n >= 4 THEN {<<0, 4>>, <<n - 4, 4>>}
    ELSE (IF (n \div 2) % 2 = 1 THEN {<<0, 2>>} ELSE {})
             \cup (IF n % 2 = 1 THEN {<<n - 1, 1>>} ELSE {})

\* The offsets those copies read from src and write to dst.
short_memcpy_offsets(n) ==
    UNION {{c[1] + k : k \in 0..(c[2] - 1)} : c \in short_memcpy_chunks(n)}

\* Highest offset they touch, plus one (0 when nothing is copied).
short_memcpy_extent(n) ==
    LET offs == short_memcpy_offsets(n)
    IN  IF offs = {} THEN 0 ELSE 1 + (CHOOSE o \in offs : \A p \in offs : p <= o)

\* The bytes short_memcpy leaves in dst[0 .. extent - 1] when copying from
\* offset `from` of mem.  A hole it would leave unwritten reads as -2.
short_memcpy(mem, from, n) ==
    IF n >= CACHE_LINE_SIZE THEN memcpy(mem, from, n)
    ELSE LET offs == short_memcpy_offsets(n)
         IN  [i \in 1..short_memcpy_extent(n) |->
                 IF (i - 1) \in offs THEN Load(mem, from + i - 1) ELSE -2]

\* encode_run_size: two little-endian base-RADIX digits.
encode_run_size(distance) == <<distance % RADIX, distance \div RADIX>>

\* decode_run_size(src) for the two bytes at offset `at` of mem.
decode_run_size(mem, at) == Load(mem, at) + RADIX * Load(mem, at + 1)

\* One turn of the loop of crdb_word_stuff_encode and the turns after it.
\* `pos` is the offset of the unread input in `input`, `ret` the output so
\* far.  The result holds the output and whether every assertion held.
RECURSIVE encode_loop(_, _, _, _)
encode_loop(input, pos, ret, first_header) ==
    LET src_size == Len(input) - pos
        max_run_size == IF first_header THEN MAX_INITIAL_RUN ELSE MAX_REMAINING_RUN
        next_forbidden ==
            crdb_word_stuff_header_find(input, pos, Min(max_run_size, src_size))
        run_size == next_forbidden - pos
        size_field == IF first_header THEN <<run_size % 256>>
                      ELSE encode_run_size(run_size)
        ret1 == ret \o size_field \o short_memcpy(input, pos, run_size)
        pos1 == pos + run_size
        size1 == src_size - run_size
    IN  \* Len(ret) < 0 never holds: it makes TLC compute ret at every turn.
        IF Len(ret) < 0 \/ run_size > max_run_size
        THEN [out |-> ret, asserts |-> FALSE]
        ELSE IF run_size < max_run_size
        THEN IF size1 = 0 THEN [out |-> ret1, asserts |-> TRUE]
             ELSE IF ~(/\ size1 >= CRDB_WORD_STUFF_HEADER_SIZE
                       /\ Load(input, pos1) = header[1]
                       /\ Load(input, pos1 + 1) = header[2])
             THEN [out |-> ret1, asserts |-> FALSE]
             ELSE encode_loop(input, pos1 + CRDB_WORD_STUFF_HEADER_SIZE, ret1, FALSE)
        ELSE encode_loop(input, pos1, ret1, FALSE)

crdb_word_stuff_encode(input) == encode_loop(input, 0, <<>>, TRUE)

\* One turn of the loop of crdb_word_stuff_decode and the turns after it, on
\* the src_size bytes at offset `start` of mem.  `pos` is the offset of the
\* unread input, `ret` the bytes written to dst so far.  The result holds
\* ok (FALSE for a NULL return), the bytes written to dst (also on the
\* failing paths) and the number of input bytes consumed.
\* The decoder reinserting an implicit header without asking for room.
decode_header_fits_unchecked(src_size) == TRUE

\* The test of crdb_word_stuff_decode before it writes an implicit header:
\* a header must remain in the input.
decode_header_fits(src_size) == ~(src_size < CRDB_WORD_STUFF_HEADER_SIZE)

RECURSIVE decode_loop_any_length(_, _, _, _, _, _)
\* decode_loop accepting run lengths above max_run_size.
decode_loop_any_length(mem, start, total, pos, ret, first_header) ==
    LET src_size == total - (pos - start)
        field == IF first_header THEN 1 ELSE CRDB_WORD_STUFF_HEADER_SIZE
        max_run_size == IF first_header THEN MAX_INITIAL_RUN ELSE MAX_REMAINING_RUN
        run_size == IF first_header THEN Load(mem, pos) ELSE decode_run_size(mem, pos)
        pos1 == pos + field
        size1 == src_size - field
        ret1 == ret \o short_memcpy(mem, pos1, run_size)
        pos2 == pos1 + run_size
        size2 == size1 - run_size
    IN  IF Len(ret) < 0 \/ src_size < field
        THEN [ok |-> FALSE, out |-> ret, consumed |-> pos - start]
        ELSE IF size1 < run_size
        THEN [ok |-> FALSE, out |-> ret, consumed |-> pos1 - start]
        ELSE IF run_size < max_run_size
        THEN IF size2 = 0
             THEN [ok |-> TRUE, out |-> ret1, consumed |-> pos2 - start]
             ELSE IF ~decode_header_fits(size2)
             THEN [ok |-> FALSE, out |-> ret1, consumed |-> pos2 - start]
             ELSE decode_loop_any_length(mem, start, total, pos2, ret1 \o header, FALSE)
        ELSE decode_loop_any_length(mem, start, total, pos2, ret1, FALSE)

RECURSIVE decode_loop(_, _, _, _, _, _)
decode_loop(mem, start, total, pos, ret, first_header) ==
    LET src_size == total - (pos - start)
        max_run_size == IF first_header THEN MAX_INITIAL_RUN ELSE MAX_REMAINING_RUN
        field == IF first_header THEN 1 ELSE CRDB_WORD_STUFF_HEADER_SIZE
        run_size == IF first_header THEN Load(mem, pos) ELSE decode_run_size(mem, pos)
        pos1 == pos + field
        size1 == src_size - field
        ret1 == ret \o short_memcpy(mem, pos1, run_size)
        pos2 == pos1 + run_size
        size2 == size1 - run_size
    IN  \* Len(ret) < 0 never holds: it makes TLC compute ret at every turn.
        IF Len(ret) < 0 \/ src_size < field
        THEN [ok |-> FALSE, out |-> ret, consumed |-> pos - start]
        ELSE IF size1 < run_size \/ run_size > max_run_size
        THEN [ok |-> FALSE, out |-> ret, consumed |-> pos1 - start]
        ELSE IF run_size < max_run_size
        THEN IF size2 = 0
             THEN [ok |-> TRUE, out |-> ret1, consumed |-> pos2 - start]
             ELSE IF ~decode_header_fits(size2)
             THEN [ok |-> FALSE, out |-> ret1, consumed |-> pos2 - start]
             ELSE decode_loop(mem, start, total, pos2, ret1 \o header, FALSE)
        ELSE decode_loop(mem, start, total, pos2, ret1, FALSE)

crdb_word_stuff_decode(mem, start, src_size) ==
    decode_loop(mem, start, src_size, start, <<>>, TRUE)

\* CRDB_WORD_STUFFED_BOUND(IN_SIZE) of word_stuff.h.
CRDB_WORD_STUFFED_BOUND(in_size) ==
    CRDB_WORD_STUFF_HEADER_SIZE + in_size
        + CRDB_WORD_STUFF_HEADER_SIZE * (2 + in_size \div (253 * 253 - 1))

\* crdb_word_stuffed_size not counting the header of the last chunk.
stuffed_size_without_last_chunk(in_size, with_header) ==
    LET ret == in_size + (IF with_header THEN Len(header) + 1 ELSE 1)
    IN  IF in_size < MAX_INITIAL_RUN THEN ret
        ELSE ret + 2 * ((in_size - MAX_INITIAL_RUN) \div MAX_REMAINING_RUN)

\* crdb_word_stuffed_size, for the sizes the model reaches (all far below
\* SSIZE_MAX): the value returned and whether its assertions hold.
crdb_word_stuffed_size(in_size, with_header) ==
    LET ret == in_size + (IF with_header THEN Len(header) + 1 ELSE 1)
    IN  IF in_size < MAX_INITIAL_RUN THEN ret
        ELSE ret + 2 * (1 + ((in_size - MAX_INITIAL_RUN) \div MAX_REMAINING_RUN))

crdb_word_stuffed_size_asserts(in_size, with_header) ==
    crdb_word_stuffed_size(in_size, with_header) <= CRDB_WORD_STUFFED_BOUND(in_size)

-----------------------------------------------------------------------------
(* record_stream.c: checksum and record encoding *)

RECURSIVE BitXor(_, _, _)
\* exclusive or of the n low bits of a and b
BitXor(a, b, n) ==
    IF n = 0 THEN 0
    ELSE ((a + b) % 2) + 2 * BitXor(a \div 2, b \div 2, n - 1)

NibbleXor == [a \in 0..15 |-> [b \in 0..15 |-> BitXor(a, b, 4)]]

\* exclusive or of two bytes
Xor8(a, b) == 16 * NibbleXor[a \div 16][b \div 16] + NibbleXor[a % 16][b % 16]

\* exclusive or of two uint32_t (four little-endian bytes each)
Xor32(v, w) == [i \in 1..4 |-> Xor8(v[i], w[i])]

\* a uint32_t shifted right by one bit
Shr1(w) == <<(w[1] \div 2) + 128 * (w[2] % 2),
             (w[2] \div 2) + 128 * (w[3] % 2),
             (w[3] \div 2) + 128 * (w[4] % 2),
             w[4] \div 2>>

\* The CRC32C (Castagnoli) polynomial, bit-reflected, as the crc32
\* instruction uses it: 0x82F63B78.
Crc32cPoly == <<120, 59, 246, 130>>

RECURSIVE Crc32cBits(_, _)
Crc32cBits(w, n) ==
    IF n = 0 THEN w
    ELSE Crc32cBits(IF w[1] % 2 = 1 THEN Xor32(Shr1(w), Crc32cPoly) ELSE Shr1(w),
                    n - 1)

Crc32cTable == [b \in 0..255 |-> Crc32cBits(<<b, 0, 0, 0>>, 8)]

\* _mm_crc32_u8(acc, byte): no inversion before or after.
mm_crc32_u8(acc, byte) ==
    LET t == Crc32cTable[Xor8(acc[1], byte)]
    IN  <<Xor8(t[1], acc[2]), Xor8(t[2], acc[3]), Xor8(t[3], acc[4]), t[4]>>

\* _mm_crc32_u32(acc, bytes), bytes being the word loaded at offset i of buf.
mm_crc32_u32(acc, buf, i) ==
    mm_crc32_u8(mm_crc32_u8(mm_crc32_u8(mm_crc32_u8(acc, buf[i + 1]),
                                        buf[i + 2]), buf[i + 3]), buf[i + 4])

RECURSIVE crc32c_words(_, _, _, _)
\* The first loop of crdb_crc32c over the n words from word `first` on:
\* the same crc32 instructions in the same order, the range being halved
\* rather than stepped through so that TLC evaluates it at a shallow depth
\* (the test on half[1], a byte, only makes TLC compute it there).
crc32c_words(buf, first, n, acc) ==
    IF n = 0 THEN acc
    ELSE IF n = 1 THEN mm_crc32_u32(acc, buf, 4 * first)
    ELSE LET half == crc32c_words(buf, first, n \div 2, acc)
         IN  IF half[1] < 0 THEN half
             ELSE crc32c_words(buf, first + (n \div 2), n - (n \div 2), half)

RECURSIVE crc32c_bytes(_, _, _, _)
\* The second loop of crdb_crc32c: the bytes left after the last whole word.
crc32c_bytes(buf, len, i, acc) ==
    IF i < len THEN crc32c_bytes(buf, len, i + 1, mm_crc32_u8(acc, buf[i + 1]))
    ELSE acc

\* crdb_crc32c(buf, len)
crdb_crc32c(buf, len) ==
    crc32c_bytes(buf, len, 4 * (len \div 4),
                 crc32c_words(buf, 0, len \div 4, <<0, 0, 0, 0>>))

\* CRC_INITIAL_VALUE, (uint32_t)-1
CRC_INITIAL_VALUE == <<255, 255, 255, 255>>

CRDB_RECORD_STREAM_MAX_LEN == 512

CRDB_RECORD_STREAM_BUF_LEN == 2 * CRDB_RECORD_STREAM_MAX_LEN

\* sizeof(struct record_header)
RECORD_HEADER_SIZE == 8

\* sizeof(struct write_record)
WRITE_RECORD_SIZE == RECORD_HEADER_SIZE + CRDB_RECORD_STREAM_MAX_LEN

MAX_ENCODED == CRDB_WORD_STUFFED_BOUND(WRITE_RECORD_SIZE)

\* A uint32_t below 2^31 as its four bytes in host order.
U32(n) == <<n % 256, (n \div 256) % 256, (n \div 65536) % 256, n \div 16777216>>

\* The bytes of a struct write_record / read_record with its crc filled in:
\* crc, generation, data.
record_bytes(crc, generation, data) == crc \o generation \o data

\* encode_record leaving out the header for the next record.
encode_record_no_trailer(record_size, stuffed) ==
    [ok |-> TRUE, asserts |-> TRUE, encoded |-> stuffed.out]

\* The end of encode_record, once the record is stuffed.
encode_record_stuffed(record_size, stuffed) ==
    IF ~(/\ crdb_word_stuffed_size_asserts(record_size, TRUE)
         /\ crdb_word_stuffed_size(record_size, TRUE) <= MAX_ENCODED
         /\ stuffed.asserts)
    THEN [ok |-> FALSE, asserts |-> FALSE, encoded |-> <<>>]
    ELSE [ok |-> TRUE, asserts |-> TRUE, encoded |-> stuffed.out \o header]

\* encode_record stuffing the record with its crc left at its initial value.
encode_record_without_crc(generation, data) ==
    IF Len(data) > CRDB_RECORD_STREAM_MAX_LEN
    THEN [ok |-> FALSE, asserts |-> TRUE, encoded |-> <<>>]
    ELSE encode_record_stuffed(
             RECORD_HEADER_SIZE + Len(data),
             crdb_word_stuff_encode(
                 record_bytes(CRC_INITIAL_VALUE, generation, data)))

\* encode_record: the encoded buffer (stuffed record, then a header for the
\* next record), or a failure, or a failed assertion.
encode_record(generation, data) ==
    IF Len(data) > CRDB_RECORD_STREAM_MAX_LEN
    THEN [ok |-> FALSE, asserts |-> TRUE, encoded |-> <<>>]
    ELSE encode_record_stuffed(
             RECORD_HEADER_SIZE + Len(data),
             crdb_word_stuff_encode(
                 record_bytes(
                     crdb_crc32c(record_bytes(CRC_INITIAL_VALUE, generation, data),
                                 RECORD_HEADER_SIZE + Len(data)),
                     generation, data)))

-----------------------------------------------------------------------------
(* record_stream.c: appending *)

num_tries == 3

\* The most bytes one writev call is asked to write; as an outcome, a
\* write that is not short.
WriteAll == MAX_ENCODED + CRDB_WORD_STUFF_HEADER_SIZE

\* What one writev/write call returns when asked to write `expected` bytes,
\* given the outcome w the kernel chooses: -1 (an error, nothing written)
\* or the most bytes it takes (a short write when below expected).
WriteResult(w, expected) == IF w < 0 THEN -1 ELSE Min(w, expected)

\* The locals of append_to_fd when its loop is left.
append_state(f, written, expected, iov0_len, partial_write, tries) ==
    [file |-> f, written |-> written, expected |-> expected,
     iov0_len |-> iov0_len, partial_write |-> partial_write, tries |-> tries]

RECURSIVE append_loop(_, _, _, _, _, _)
\* One try of the loop of append_to_fd after its writev has returned
\* `written`, and the tries that follow.
append_written(f, buf, w, i, iov0_len, partial_write, written) ==
    LET expected == Len(buf) + iov0_len
        f1 == IF written > 0
              THEN f \o Take(Take(header, iov0_len) \o buf, written)
              ELSE f
    IN  IF written = expected
        THEN append_state(f1, written, expected, iov0_len, partial_write, i + 1)
        ELSE IF written <= 0
        THEN IF i + 1 < num_tries
             THEN append_loop(f1, buf, w, i + 1, iov0_len, partial_write)
             ELSE append_state(f1, written, expected, iov0_len, partial_write,
                               i + 1)
        ELSE IF i + 1 < num_tries
        THEN append_loop(f1, buf, w, i + 1, Len(header), TRUE)
        ELSE append_state(f1, written, Len(buf) + Len(header), Len(header),
                          TRUE, i + 1)

\* The retry loop of append_to_fd from try i on.  f is the file, w[i + 1]
\* the outcome of try i, iov0_len the length of the first iovec.
append_loop(f, buf, w, i, iov0_len, partial_write) ==
    append_written(f, buf, w, i, iov0_len, partial_write,
                   WriteResult(w[i + 1], Len(buf) + iov0_len))

\* The error append_to_fd reports: errno of a failed write, a short write,
\* or none.
append_error(written, expected) ==
    IF written < 0 THEN "write failed"
    ELSE IF written # expected THEN "short write"
    ELSE "none"

\* append_to_fd reading errno after its best-effort write.
append_best_effort_errno(l, w) ==
    LET best_effort == l.partial_write /\ l.written # l.expected
        r == WriteResult(w[num_tries + 1], l.iov0_len)
    IN  [file |-> IF best_effort /\ r > 0 THEN l.file \o Take(header, r)
                  ELSE l.file,
         ret |-> ~(l.written < 0) /\ l.written = l.expected,
         asserts |-> TRUE,
         tries |-> l.tries,
         best_effort |-> best_effort,
         error |-> IF best_effort /\ r < 0 THEN "write failed"
                   ELSE append_error(l.written, l.expected)]

\* append_to_fd writing its last header after every failure.
append_best_effort_always(l, w) ==
    LET best_effort == l.written # l.expected
        r == WriteResult(w[num_tries + 1], l.iov0_len)
    IN  [file |-> IF best_effort /\ r > 0 THEN l.file \o Take(header, r)
                  ELSE l.file,
         ret |-> ~(l.written < 0) /\ l.written = l.expected,
         asserts |-> TRUE,
         tries |-> l.tries,
         best_effort |-> best_effort,
         error |-> append_error(l.written, l.expected)]

\* The end of append_to_fd, l being its locals when the loop is left.
append_best_effort(l, w) ==
    LET best_effort == l.partial_write /\ l.written # l.expected
        r == WriteResult(w[num_tries + 1], l.iov0_len)
    IN  [file |-> IF best_effort /\ r > 0 THEN l.file \o Take(header, r)
                  ELSE l.file,
         ret |-> ~(l.written < 0) /\ l.written = l.expected,
         asserts |-> TRUE,
         tries |-> l.tries,
         best_effort |-> best_effort,
         error |-> append_error(l.written, l.expected)]

\* append_to_fd(fd, buf, count): the file afterwards, the value returned,
\* and the number of write calls made.  w holds the outcomes of the (at
\* most num_tries) gather writes and then of the best-effort write.
append_to_fd(f, buf, w) ==
    append_best_effort(append_loop(f, buf, w, 0, 0, FALSE), w)

\* record_stream_append_record, e being what encode_record gave.
record_stream_append_record(f, e, w) ==
    IF ~e.ok
    THEN [file |-> f, ret |-> FALSE, asserts |-> e.asserts, tries |-> 0,
          best_effort |-> FALSE, error |-> "too long"]
    ELSE append_to_fd(f, e.encoded, w)

\* append_buf refusing a payload of the greatest length.
append_buf_rejects_longest(f, generation, buf, w) ==
    IF Len(buf) >= CRDB_RECORD_STREAM_MAX_LEN
    THEN [file |-> f, ret |-> FALSE, asserts |-> TRUE, tries |-> 0,
          best_effort |-> FALSE, error |-> "too long"]
    ELSE record_stream_append_record(f, encode_record(generation, buf), w)

\* crdb_record_stream_append_buf
crdb_record_stream_append_buf(f, generation, buf, w) ==
    IF Len(buf) > CRDB_RECORD_STREAM_MAX_LEN
    THEN [file |-> f, ret |-> FALSE, asserts |-> TRUE, tries |-> 0,
          best_effort |-> FALSE, error |-> "too long"]
    ELSE record_stream_append_record(f, encode_record(generation, buf), w)

\* fd_ends_with_header never finding the header.
fd_never_ends_with_header(f) == FALSE

\* fd_ends_with_header: lseek(fd, -2, SEEK_END) fails on a shorter file.
fd_ends_with_header(f) ==
    /\ Len(f) >= CRDB_WORD_STUFF_HEADER_SIZE
    /\ Drop(f, Len(f) - CRDB_WORD_STUFF_HEADER_SIZE) = header

crdb_record_stream_append_initial(f, w) ==
    IF fd_ends_with_header(f)
    THEN [file |-> f, ret |-> TRUE, asserts |-> TRUE, tries |-> 0,
          best_effort |-> FALSE, error |-> "none"]
    ELSE append_to_fd(f, header, w)

-----------------------------------------------------------------------------
(* record_stream.c: iterating.  The stream is the buffer mem, mapped at    *)
(* address it.begin; every pointer of the iterator is an address.          *)

\* The address mmap returns (any address other than NULL).
MapBase == 16 * 256

\* a > (size_t)d and a < (size_t)d for a size_t a below 2^63 and a pointer
\* difference d: a negative d wraps to a size_t above every such a.
GreaterThanSizeT(a, d) == d >= 0 /\ a > d

LessThanSizeT(a, d) == d < 0 \/ a < d

crdb_record_stream_iterator_init_buf(buf, size) ==
    [cursor |-> buf, end |-> buf + size, stop_at |-> buf + size, begin |-> buf,
     header |-> NULL, first_record |-> TRUE, first_nonzero |-> buf]

\* find_first_nonzero(cursor, end) in mem mapped at base.
find_first_nonzero(mem, base, cursor, end) ==
    LET stops == {a \in cursor..end : a >= end \/ Load(mem, a - base) # 0}
    IN  IF cursor >= end THEN cursor
        ELSE CHOOSE a \in stops : \A b \in stops : a <= b

\* crdb_record_stream_iterator_init_fd on a file holding mem; first_data is
\* what lseek(fd, 0, SEEK_DATA) returns.
crdb_record_stream_iterator_init_fd(mem, first_data) ==
    LET st_size == Len(mem)
        mapped == MapBase
        skip == IF first_data > 0 THEN Min(first_data, st_size) ELSE 0
        first == find_first_nonzero(mem, mapped, mapped + skip, mapped + st_size)
    IN  IF st_size <= 0 THEN crdb_record_stream_iterator_init_buf(NULL, 0)
        ELSE [cursor |-> first, end |-> mapped + st_size,
              stop_at |-> mapped + st_size, begin |-> mapped,
              header |-> NULL, first_record |-> TRUE, first_nonzero |-> first]

\* crdb_record_stream_iterator_size
crdb_record_stream_iterator_size(i) == i.end - i.begin

\* crdb_record_stream_iterator_locate_at taking every offset it accepts for
\* the start of a record without a header.
locate_at_headerless(i, start_offset) ==
    IF \/ LessThanSizeT(start_offset, i.first_nonzero - i.begin)
       \/ GreaterThanSizeT(start_offset, i.stop_at - i.begin)
    THEN [it |-> i, ret |-> FALSE]
    ELSE [it |-> [i EXCEPT !.first_record = TRUE, !.cursor = i.begin + start_offset],
          ret |-> TRUE]

\* crdb_record_stream_iterator_locate_at accepting offsets after stop_at.
locate_at_past_stop(i, start_offset) ==
    IF LessThanSizeT(start_offset, i.first_nonzero - i.begin)
    THEN [it |-> i, ret |-> FALSE]
    ELSE IF start_offset = i.first_nonzero - i.begin
    THEN [it |-> [i EXCEPT !.first_record = TRUE, !.cursor = i.first_nonzero],
          ret |-> TRUE]
    ELSE [it |-> [i EXCEPT !.first_record = FALSE, !.cursor = i.begin + start_offset],
          ret |-> TRUE]

\* crdb_record_stream_iterator_locate_at: the iterator afterwards and the
\* value returned.
crdb_record_stream_iterator_locate_at(i, start_offset) ==
    IF \/ LessThanSizeT(start_offset, i.first_nonzero - i.begin)
       \/ GreaterThanSizeT(start_offset, i.stop_at - i.begin)
    THEN [it |-> i, ret |-> FALSE]
    ELSE IF start_offset = i.first_nonzero - i.begin
    THEN [it |-> [i EXCEPT !.first_record = TRUE, !.cursor = i.first_nonzero],
          ret |-> TRUE]
    ELSE [it |-> [i EXCEPT !.first_record = FALSE, !.cursor = i.begin + start_offset],
          ret |-> TRUE]

\* crdb_record_stream_iterator_stop_at
crdb_record_stream_iterator_stop_at(i, stop_offset) ==
    IF GreaterThanSizeT(stop_offset, i.end - i.begin) THEN i
    ELSE [i EXCEPT !.stop_at = i.begin + stop_offset]

\* crc_matches accepting every record.
crc_unchecked(record, total_len) == TRUE

\* crc_matches(record, total_len), record being the decoded bytes.
crc_matches(record, total_len) ==
    LET expected == Take(record, 4)
    IN  expected = crdb_crc32c(CRC_INITIAL_VALUE \o Drop(record, 4), total_len)

\* What record_stream_iterator_next_record gives when it returns -1.
NoRecord(i) == [it |-> i, r |-> -1, dst |-> <<>>, fault |-> "none"]

\* What it gives when the process stops in it.
Fault(i, what) == [it |-> i, r |-> -1, dst |-> <<>>, fault |-> what]

\* The end of record_stream_iterator_next_record, once the range between
\* two headers is decoded.
next_record_check(i, decoded) ==
    IF ~decoded.ok THEN NoRecord(i)
    ELSE IF \/ Len(decoded.out) < RECORD_HEADER_SIZE
            \/ ~crc_matches(decoded.out, Len(decoded.out))
    THEN NoRecord(i)
    ELSE [it |-> i, r |-> Len(decoded.out) - RECORD_HEADER_SIZE,
          dst |-> decoded.out, fault |-> "none"]

\* next_record_range rejecting a range of exactly
\* CRDB_RECORD_STREAM_BUF_LEN bytes.
next_record_range_strict(mem, i, encoded_data, next_header) ==
    IF next_header - encoded_data >= CRDB_RECORD_STREAM_BUF_LEN
    THEN NoRecord([i EXCEPT !.cursor = next_header])
    ELSE next_record_check(
             [i EXCEPT !.cursor = next_header],
             crdb_word_stuff_decode(mem, encoded_data - i.begin,
                                    next_header - encoded_data))

\* next_record_range decoding a range of any length.
next_record_range_unlimited(mem, i, encoded_data, next_header) ==
    next_record_check(
        [i EXCEPT !.cursor = next_header],
        crdb_word_stuff_decode(mem, encoded_data - i.begin,
                               next_header - encoded_data))

\* record_stream_iterator_next_record once next_header is found.
next_record_range(mem, i, encoded_data, next_header) ==
    IF next_header - encoded_data > CRDB_RECORD_STREAM_BUF_LEN
    THEN NoRecord([i EXCEPT !.cursor = next_header])
    ELSE next_record_check(
             [i EXCEPT !.cursor = next_header],
             crdb_word_stuff_decode(mem, encoded_data - i.begin,
                                    next_header - encoded_data))

\* record_stream_iterator_next_record once it->header and encoded_data are
\* set.
next_record_decode(mem, i, encoded_data) ==
    IF i.header >= i.stop_at THEN NoRecord([i EXCEPT !.cursor = i.end])
    ELSE IF i.end - encoded_data < 0 THEN Fault(i, "wild read")
    ELSE next_record_range(
             mem, i, encoded_data,
             i.begin + crdb_word_stuff_header_find(mem, encoded_data - i.begin,
                                                   i.end - encoded_data))

\* next_record_header looking for headers up to end, not up to stop_at.
next_record_header_to_end(mem, i, first_header) ==
    IF first_header >= i.end THEN NoRecord([i EXCEPT !.cursor = i.end])
    ELSE IF ~(first_header + CRDB_WORD_STUFF_HEADER_SIZE <= i.end)
    THEN Fault([i EXCEPT !.header = first_header], "assert")
    ELSE next_record_range(
             mem, [i EXCEPT !.header = first_header],
             first_header + CRDB_WORD_STUFF_HEADER_SIZE,
             i.begin + crdb_word_stuff_header_find(
                           mem, first_header + CRDB_WORD_STUFF_HEADER_SIZE - i.begin,
                           i.end - (first_header + CRDB_WORD_STUFF_HEADER_SIZE)))

\* next_record_header leaving the cursor where it is when no header is left
\* before stop_at.
next_record_header_stays(mem, i, first_header) ==
    IF first_header >= i.stop_at THEN NoRecord(i)
    ELSE IF ~(first_header + CRDB_WORD_STUFF_HEADER_SIZE <= i.end)
    THEN Fault([i EXCEPT !.header = first_header], "assert")
    ELSE next_record_decode(mem, [i EXCEPT !.header = first_header],
                            first_header + CRDB_WORD_STUFF_HEADER_SIZE)

\* record_stream_iterator_next_record, not on the first record, once
\* first_header is found.
next_record_header(mem, i, first_header) ==
    IF first_header >= i.stop_at THEN NoRecord([i EXCEPT !.cursor = i.end])
    ELSE IF ~(first_header + CRDB_WORD_STUFF_HEADER_SIZE <= i.end)
    THEN Fault([i EXCEPT !.header = first_header], "assert")
    ELSE next_record_decode(mem, [i EXCEPT !.header = first_header],
                            first_header + CRDB_WORD_STUFF_HEADER_SIZE)

\* record_stream_iterator_next_record(it, dst): the iterator afterwards, the
\* value returned, the bytes decoded into dst, and whether the process
\* stopped on an assertion or on a read through a wild pointer.
record_stream_iterator_next_record(mem, i) ==
    IF i.first_record
    THEN next_record_decode(mem,
             [i EXCEPT !.first_record = FALSE, !.header = i.cursor], i.cursor)
    ELSE IF i.end - i.cursor < 0 THEN Fault(i, "wild read")
    ELSE next_record_header(
             mem, i,
             i.begin + crdb_word_stuff_header_find(mem, i.cursor - i.begin,
                                                   i.end - i.cursor))

\* record_stream_iterator_next returning at the first range it rejects.
next_gives_up(mem, n) == n

RECURSIVE record_stream_iterator_next(_, _)
\* The body of the loop of record_stream_iterator_next after
\* record_stream_iterator_next_record has returned n.
next_retry(mem, n) ==
    IF n.r >= 0 \/ n.fault # "none" THEN n
    ELSE record_stream_iterator_next(mem, n.it)

\* record_stream_iterator_next(it, dst)
record_stream_iterator_next(mem, i) ==
    IF i.cursor < i.stop_at
    THEN next_retry(mem, record_stream_iterator_next_record(mem, i))
    ELSE NoRecord([i EXCEPT !.cursor = NULL, !.end = NULL])

\* next_buf setting its outputs only when it has a record: at the end they
\* hold what the caller left in them.
next_buf_copy_stale(n) ==
    IF n.fault # "none" \/ n.r < 0
    THEN [it |-> n.it, ret |-> FALSE, generation |-> <<255, 255, 255, 255>>,
          data |-> <<>>, len |-> CRDB_RECORD_STREAM_BUF_LEN, fault |-> n.fault]
    ELSE [it |-> n.it, ret |-> TRUE,
          generation |-> SubSeq(n.dst, 5, 8),
          data |-> memcpy(n.dst, RECORD_HEADER_SIZE, n.r),
          len |-> n.r, fault |-> "none"]

\* The end of crdb_record_stream_iterator_next_buf, n being what
\* record_stream_iterator_next gave.
next_buf_copy(n) ==
    IF n.fault # "none"
    THEN [it |-> n.it, ret |-> FALSE, generation |-> U32(0), data |-> <<>>,
          len |-> 0, fault |-> n.fault]
    ELSE IF n.r < 0
    THEN [it |-> n.it, ret |-> FALSE, generation |-> U32(0), data |-> <<>>,
          len |-> 0, fault |-> "none"]
    ELSE IF ~(n.r <= CRDB_RECORD_STREAM_BUF_LEN)
    THEN [it |-> n.it, ret |-> FALSE, generation |-> U32(0), data |-> <<>>,
          len |-> 0, fault |-> "assert"]
    ELSE [it |-> n.it, ret |-> TRUE,
          generation |-> SubSeq(n.dst, 5, 8),
          data |-> memcpy(n.dst, RECORD_HEADER_SIZE, n.r),
          len |-> n.r, fault |-> "none"]

\* crdb_record_stream_iterator_next_buf: the iterator afterwards, the value
\* returned and the three outputs.
crdb_record_stream_iterator_next_buf(mem, i) ==
    next_buf_copy(record_stream_iterator_next(mem, i))

-----------------------------------------------------------------------------
(* The codec on its own: encode an input and decode the result, or decode  *)
(* an arbitrary byte string.                                               *)

MaxShort == 4

PadSlack == 2

MaxRaw == 4

PlainBytes == {0, RADIX, RADIX + 1}

RawBytes == {0, 1, 2, MAX_INITIAL_RUN, RADIX, RADIX + 1}

ShortInputs == SeqsUpTo(PlainBytes, MaxShort)

\* Inputs around the length of a full first run, the tail placing a header
\* before, across and after the end of that run.
LongInputs ==
    {Fill(n, 1) \o t : n \in (MAX_INITIAL_RUN - PadSlack)..(MAX_INITIAL_RUN + 1),
                       t \in ShortInputs}

\* Inputs around the length of a full first run followed by a full later
\* run, the tail placing a header across and after the end of that run.
HugeInputs ==
    {Fill(MAX_INITIAL_RUN + MAX_REMAINING_RUN - n, 1) \o t :
        n \in 0..1, t \in SeqsUpTo({RADIX, RADIX + 1}, 2)}

EncodeInputs == ShortInputs \cup LongInputs \cup HugeInputs

\* Stuffed bytes with a length field above its maximum and as many bytes
\* after it, and with a full later run, each with and without a last run.
OverlongRuns ==
    {r \o t :
        r \in {<<n>> \o Fill(n, 1) : n \in {RADIX, RADIX + 1}}
                 \cup {<<0, 0, RADIX>> \o Fill(RADIX * RADIX, 1),
                       <<0>> \o encode_run_size(MAX_REMAINING_RUN)
                             \o Fill(MAX_REMAINING_RUN, 1)},
        t \in SeqsUpTo({0}, 2)}

\* Stuffed bytes whose two-byte length field has a low byte of 253 or more,
\* and as many bytes after it.
WideDigits == {<<0, d, 0>> \o Fill(d, 1) : d \in {RADIX, RADIX + 1}}

\* Arbitrary stuffed bytes: short strings, and a full first run with a tail.
RawInputs ==
    SeqsUpTo(RawBytes, MaxRaw)
        \cup {<<MAX_INITIAL_RUN>> \o Fill(n, 1) \o t :
                 n \in (MAX_INITIAL_RUN - 1)..MAX_INITIAL_RUN,
                 t \in SeqsUpTo(RawBytes, 2)}
        \cup OverlongRuns
        \cup WideDigits

NoEnc == [out |-> <<>>, asserts |-> TRUE]

NoDec == [ok |-> FALSE, out |-> <<>>, consumed |-> 0]

NoIt == [cursor |-> NULL, end |-> NULL, stop_at |-> NULL, begin |-> NULL,
         header |-> NULL, first_record |-> FALSE, first_nonzero |-> NULL]

NoLast == [ret |-> FALSE, generation |-> <<0, 0, 0, 0>>, data |-> <<>>, len |-> 0]

NoAux == [split |-> -1, at |-> -1, len |-> 0, orig |-> <<>>, starts |-> <<>>]

StreamIdle ==
    /\ log = <<>>
    /\ it = NoIt
    /\ last = NoLast
    /\ yielded = <<>>
    /\ runs = <<>>
    /\ aborted = FALSE
    /\ aux = NoAux

CodecInit ==
    /\ pc = "start"
    /\ kind \in {"roundtrip", "decode"}
    /\ src \in (IF kind = "roundtrip" THEN EncodeInputs ELSE RawInputs)
    /\ enc = NoEnc
    /\ dec = NoDec
    /\ file = <<>>
    /\ StreamIdle

Encode ==
    /\ pc = "start"
    /\ kind = "roundtrip"
    /\ enc' = crdb_word_stuff_encode(src)
    /\ pc' = "encoded"
    /\ UNCHANGED <<kind, src, dec, streamVars, aux>>

Decode ==
    /\ pc = "encoded"
    /\ enc.asserts
    /\ dec' = crdb_word_stuff_decode(enc.out, 0, Len(enc.out))
    /\ pc' = "done"
    /\ UNCHANGED <<kind, src, enc, streamVars, aux>>

DecodeRaw ==
    /\ pc = "start"
    /\ kind = "decode"
    /\ dec' = crdb_word_stuff_decode(src, 0, Len(src))
    /\ pc' = "done"
    /\ UNCHANGED <<kind, src, enc, streamVars, aux>>

CodecNext == Encode \/ Decode \/ DecodeRaw

SpecCodec == CodecInit /\ [][CodecNext]_vars

\* The bytes of dst are bytes: nothing was copied from outside the input.
AllBytes(q) == \A k \in 1..Len(q) : q[k] \in 0..255

\* The header occurs in q.
HasHeader(q) == \E k \in 1..(Len(q) - 1) : q[k] = header[1] /\ q[k + 1] = header[2]

\* C1: decoding what crdb_word_stuff_encode produced for s succeeds and
\* gives back exactly s, for every input s; the encoder's assertions hold.
C1_CodecRoundTrip ==
    kind = "roundtrip" =>
        /\ pc \in {"encoded", "done"} => enc.asserts
        /\ pc = "done" => dec.ok /\ dec.out = src /\ dec.consumed = Len(enc.out)

\* A header straddling the end of a full first run went through the codec.
C1_Witness ==
    /\ kind = "roundtrip"
    /\ pc = "done"
    /\ src = Fill(MAX_INITIAL_RUN - 1, 1) \o header
    /\ dec.out = src

\* C2: the output of crdb_word_stuff_encode holds no header anywhere, and
\* crdb_word_stuff_header_find on it returns its end.
C2_MarkerFree ==
    (kind = "roundtrip" /\ pc \in {"encoded", "done"}) =>
        /\ ~HasHeader(enc.out)
        /\ crdb_word_stuff_header_find(enc.out, 0, Len(enc.out)) = Len(enc.out)

\* An input made of two headers was encoded.
C2_Witness ==
    /\ kind = "roundtrip"
    /\ pc = "encoded"
    /\ src = header \o header
    /\ Len(enc.out) > Len(src)

\* The bytes crdb_word_stuff_decode was given.
DecodeInput == IF kind = "decode" THEN src ELSE enc.out

\* C10, as stated: for every byte string e, crdb_word_stuff_decode has
\* written at most |e| - 1 bytes when it returns.
C10_WritesBelowInput ==
    pc = "done" => Len(dec.out) <= Len(DecodeInput) - 1

\* C10, amended: crdb_word_stuff_decode returns success or failure, reads
\* only bytes of e, and has written at most |e| - 1 bytes when e is not
\* empty; given the empty string it fails and writes nothing.
C10_DecoderRobust ==
    pc = "done" =>
        /\ dec.ok \in BOOLEAN
        /\ dec.consumed <= Len(DecodeInput)
        /\ AllBytes(dec.out)
        /\ IF Len(DecodeInput) = 0
           THEN ~dec.ok /\ dec.out = <<>>
           ELSE Len(dec.out) <= Len(DecodeInput) - 1

\* A decode that fails after it has written |e| - 1 bytes.
C10_Witness ==
    /\ kind = "decode"
    /\ pc = "done"
    /\ ~dec.ok
    /\ Len(src) > 1
    /\ Len(dec.out) = Len(src) - 1


-----------------------------------------------------------------------------
(* The record stream: a writer appends records, the file may be damaged,   *)
(* and a reader iterates over it.                                          *)

MaxAppends == 2

\* Every write of these scenarios completes in full.
FullWrites == [i \in 1..(num_tries + 1) |-> WriteAll]

\* 82165 is a generation whose record with an empty payload has a checksum
\* starting with the bytes of the header; 65022 is the header read as a number.
Generations == {7, 82165, 65022}

Payloads == {<<>>, <<1, 2, 3>>, <<254, 253, 254, 253>>,
             Fill(CRDB_RECORD_STREAM_MAX_LEN, 1)}

StreamRecords == {<<U32(g), p>> : g \in Generations, p \in Payloads}

\* The number of zero bytes the file starts with.
LeadingZeros(f) ==
    LET nz == {i \in 1..Len(f) : f[i] # 0}
    IN  IF nz = {} THEN Len(f) ELSE (CHOOSE i \in nz : \A j \in nz : i <= j) - 1

\* One of the given files, with no iterator open on it.
ReaderStart(k, files) ==
    /\ pc = "closed"
    /\ kind = k
    /\ src = <<>>
    /\ enc = NoEnc
    /\ dec = NoDec
    /\ file \in files
    /\ StreamIdle

\* An empty file that no iterator is open on.
StreamStart(k) == ReaderStart(k, {<<>>})

StreamInit == StreamStart("stream")

\* crdb_record_stream_append_buf(fd, generation, buf, len), every write
\* completing in full.  aux.starts keeps the offset each record starts at.
AppendRecord(records, max) ==
    /\ pc = "closed"
    /\ runs = <<>>
    /\ Len(log) < max
    /\ \E r \in records :
          \E a \in {crdb_record_stream_append_buf(file, r[1], r[2], FullWrites)} :
              /\ a.ret
              /\ a.asserts
              /\ file' = a.file
              /\ log' = Append(log, r)
              /\ aux' = [aux EXCEPT !.starts = Append(@, Len(file))]
    /\ UNCHANGED <<pc, kind, codecVars, it, last, yielded, runs, aborted>>

AppendBuf == AppendRecord(StreamRecords, MaxAppends)

\* crdb_record_stream_append_initial(fd) before the first record.
AppendInitial ==
    /\ pc = "closed"
    /\ runs = <<>>
    /\ log = <<>>
    /\ \E a \in {crdb_record_stream_append_initial(file, FullWrites)} :
          /\ a.ret
          /\ file' = a.file
    /\ UNCHANGED <<pc, kind, codecVars, log, it, last, yielded, runs, aborted, aux>>

\* What the reader does with a new iterator: bound it, position it, or
\* iterate at once.
AfterInit ==
    IF kind = "partition" /\ Len(runs) = 1 THEN "stop"
    ELSE IF kind = "partition" /\ Len(runs) = 2 THEN "locate"
    ELSE IF kind = "scan" THEN "bound"
    ELSE "iter"

\* crdb_record_stream_iterator_init_fd(it, fd): a reader opens the file.
\* lseek(fd, 0, SEEK_DATA) fails or returns an offset in the leading zeros.
IterInitFd ==
    /\ pc \in {"closed", "damaged"}
    /\ pc = "closed" => (runs = <<>> \/ kind \in {"partition", "append"})
    /\ \E first_data \in -1..LeadingZeros(file) :
          it' = crdb_record_stream_iterator_init_fd(file, first_data)
    /\ pc' = AfterInit
    /\ last' = NoLast
    /\ yielded' = <<>>
    /\ UNCHANGED <<kind, codecVars, file, log, runs, aborted, aux>>

\* One call of crdb_record_stream_iterator_next_buf(it, &generation, dst, &len).
NextBufCall ==
    \E n \in {crdb_record_stream_iterator_next_buf(file, it)} :
        /\ it' = n.it
        /\ last' = [ret |-> n.ret, generation |-> n.generation,
                    data |-> n.data, len |-> n.len]
        /\ yielded' = IF n.ret THEN Append(yielded, <<n.generation, n.data>>)
                      ELSE yielded
        /\ aborted' = (n.fault # "none")
        /\ pc' = IF n.fault # "none" THEN "aborted"
                 ELSE IF n.ret THEN "iter" ELSE "ended"
        /\ UNCHANGED <<kind, codecVars, file, log, runs, aux>>

NextBuf ==
    /\ pc = "iter"
    /\ NextBufCall

\* next_buf called again after it has returned false.
NextBufAfterEnd ==
    /\ pc = "ended"
    /\ NextBufCall

StreamNext == AppendBuf \/ IterInitFd \/ NextBuf \/ NextBufAfterEnd

SpecStream == StreamInit /\ [][StreamNext]_vars

\* C3: from an empty file, after the appends of log (every write completing
\* in full), a full iteration yields exactly the records of log, in append
\* order, and then signals the end.
C3_StreamRoundTrip ==
    (kind = "stream" /\ pc = "ended") => (yielded = log /\ ~last.ret)

\* C7: once next_buf has returned false on an iterator over a non-empty
\* stream, a further call returns false again, fails no assertion and reads
\* nothing outside the stream.
C7_EndIsSticky ==
    [][(kind = "stream" /\ pc = "ended" /\ file # <<>>)
          => (pc' = "ended" /\ ~last'.ret /\ ~aborted')]_vars

-----------------------------------------------------------------------------
(* A reader iterates over a file that holds the stuffed envelope of a      *)
(* record between headers, among other bytes.                              *)

MaxJunk == 2

JunkBytes == {0, header[2], header[1]}

Junk == SeqsUpTo(JunkBytes, MaxJunk)

\* The bytes of a record with its crc, as encode_record fills them in.
Envelope(r) ==
    record_bytes(crdb_crc32c(record_bytes(CRC_INITIAL_VALUE, r[1], r[2]),
                             RECORD_HEADER_SIZE + Len(r[2])),
                 r[1], r[2])

\* The longest payload whose stuffed envelope the iterator accepts: 1024
\* stuffed bytes.
LongestRead == Fill(CRDB_RECORD_STREAM_BUF_LEN - RECORD_HEADER_SIZE - 3, 1)

LocalityRecords ==
    {<<U32(g), p>> : g \in Generations, p \in {<<>>, <<1, 2, 3>>, header \o header}}
        \cup {<<U32(7), LongestRead>>}

\* The stuffed envelope of each of these records.
Stuffed == [r \in LocalityRecords |-> crdb_word_stuff_encode(Envelope(r)).out]

\* A stuffed envelope that verifies but is one byte too long to be read.
Oversize == crdb_word_stuff_encode(Envelope(<<U32(7), LongestRead \o <<1>>>>)).out

\* A stuffed envelope whose last payload byte was altered.
BadCrc ==
    LET e == crdb_word_stuff_encode(Envelope(<<U32(7), <<1, 2, 3>>>>)).out
    IN  [e EXCEPT ![Len(e)] = 4]

\* What the file holds before the header of the record.
Before ==
    Junk \cup {Oversize, BadCrc, header \o Oversize, header \o BadCrc}
         \cup {j \o Stuffed[<<U32(7), <<>>>>] : j \in Junk}

\* What it holds after the record: nothing, or a header and other bytes.
After == {<<>>} \cup {header \o j : j \in SeqsUpTo(JunkBytes, 1)}

LocalityFiles ==
    {b \o header \o Stuffed[r] \o a : b \in Before, r \in LocalityRecords, a \in After}

LocalityInit == ReaderStart("locality", LocalityFiles)

LocalityNext == IterInitFd \/ NextBuf

SpecLocality == LocalityInit /\ [][LocalityNext]_vars

\* A header lies at offset o of f.
HeaderAt(f, o) ==
    /\ o >= 0
    /\ o + CRDB_WORD_STUFF_HEADER_SIZE <= Len(f)
    /\ f[o + 1] = header[1]
    /\ f[o + 2] = header[2]

\* Where a range of stuffed bytes may start: after a header, or at the
\* first non-zero byte of the file.
RangeStarts(f) ==
    {o + CRDB_WORD_STUFF_HEADER_SIZE : o \in {k \in 0..Len(f) : HeaderAt(f, k)}}
        \cup {LeadingZeros(f)}

\* The offset of the first header at or after offset a of f, or the end of f.
RangeEnd(f, a) ==
    LET stops == {o \in a..Len(f) : HeaderAt(f, o) \/ o = Len(f)}
    IN  CHOOSE o \in stops : \A k \in stops : o <= k

\* The decoded bytes d.out are a record that verifies and holds what the
\* last call of next_buf returned.
VerifiedRecord(d) ==
    /\ d.ok
    /\ Len(d.out) >= RECORD_HEADER_SIZE
    /\ Take(d.out, 4) = crdb_crc32c(CRC_INITIAL_VALUE \o Drop(d.out, 4), Len(d.out))
    /\ last.generation = SubSeq(d.out, 5, 8)
    /\ last.data = Drop(d.out, RECORD_HEADER_SIZE)
    /\ last.len = Len(d.out) - RECORD_HEADER_SIZE

\* C9: whenever next_buf returns a record, the iterator has just passed a
\* range of at most 1024 bytes, starting after a header or at the first
\* non-zero byte and ending at the next header or at the end of the file,
\* that the codec decodes to at least 8 bytes whose stored CRC equals the
\* CRC computed with the crc field set to 0xFFFFFFFF, and the record
\* returned is the one decoded from that range.
C9_OnlyVerifiedRecords ==
    (pc \in {"iter", "ended"} /\ last.ret) =>
        \E a \in RangeStarts(file) :
            /\ a <= Len(file)
            /\ RangeEnd(file, a) = it.cursor - it.begin
            /\ RangeEnd(file, a) - a <= CRDB_RECORD_STREAM_BUF_LEN
            /\ VerifiedRecord(crdb_word_stuff_decode(file, a, RangeEnd(file, a) - a))

\* The bytes q lie at offset o of f.
BytesAt(f, o, q) == o + Len(q) <= Len(f) /\ SubSeq(f, o + 1, o + Len(q)) = q

\* f holds, at or after its first non-zero byte, a header, then the stuffed
\* envelope of r, then a header or its end.
Planted(f, r) ==
    \E o \in LeadingZeros(f)..Len(f) :
        /\ HeaderAt(f, o)
        /\ BytesAt(f, o + CRDB_WORD_STUFF_HEADER_SIZE, Stuffed[r])
        /\ \/ o + CRDB_WORD_STUFF_HEADER_SIZE + Len(Stuffed[r]) = Len(f)
           \/ HeaderAt(f, o + CRDB_WORD_STUFF_HEADER_SIZE + Len(Stuffed[r]))

\* C4: a full iteration yields every record whose stuffed envelope (of at
\* most 1024 bytes) the file holds between a header and a header or the end
\* of the file, whatever its other bytes are.
C4_Locality ==
    (kind = "locality" /\ pc = "ended") =>
        \A r \in LocalityRecords :
            Planted(file, r) => \E k \in 1..Len(yielded) : yielded[k] = r

\* The record of 1024 stuffed bytes was yielded after a range one byte
\* longer, which was not.
C4_Witness ==
    /\ kind = "locality"
    /\ pc = "ended"
    /\ BytesAt(file, 0, Oversize)
    /\ yielded = <<<<U32(7), LongestRead>>>>

\* A record was returned from a file that starts with a range whose CRC
\* does not verify.
C9_Witness ==
    /\ kind = "locality"
    /\ pc = "iter"
    /\ last.ret
    /\ BytesAt(file, 0, BadCrc)
    /\ Len(yielded) = 1

-----------------------------------------------------------------------------
(* A file of appended records cut short, then iterated.                    *)

MaxDamaged == 3

\* Records of 9 and 12 stuffed bytes, and the record whose stuffed bytes
\* start with a zero byte.
DamageRecords == {<<U32(7), <<>>>>, <<U32(7), <<1, 2, 3>>>>, <<U32(82165), <<>>>>}

TruncateInit == StreamStart("truncate")

AppendDamaged == AppendRecord(DamageRecords, MaxDamaged)

\* The file is truncated at offset t (a crash during a write, ftruncate).
Truncate ==
    /\ pc = "closed"
    /\ kind = "truncate"
    /\ \E t \in 0..Len(file) :
          /\ file' = Take(file, t)
          /\ aux' = [aux EXCEPT !.at = t, !.len = Len(file) - t, !.orig = file]
    /\ pc' = "damaged"
    /\ UNCHANGED <<kind, codecVars, log, it, last, yielded, runs, aborted>>

TruncateNext == AppendInitial \/ AppendDamaged \/ Truncate \/ IterInitFd \/ NextBuf

SpecTruncate == TruncateInit /\ [][TruncateNext]_vars

\* The number of records of log with bytes before offset t of the file.
RecordsBefore(t) == Cardinality({i \in 1..Len(log) : aux.starts[i] < t})

\* C6: a full iteration of a file of appended records truncated at offset
\* t yields, in order and unaltered, the records with bytes before t,
\* except possibly the last of them, and nothing else.
C6_TruncationResync ==
    (kind = "truncate" /\ pc = "ended" /\ aux.at >= 0) =>
        \/ yielded = SubSeq(log, 1, RecordsBefore(aux.at))
        \/ /\ RecordsBefore(aux.at) > 0
           /\ yielded = SubSeq(log, 1, RecordsBefore(aux.at) - 1)

-----------------------------------------------------------------------------
(* A file of appended records iterated, then damaged by an overwrite and   *)
(* iterated again.                                                         *)

\* What a damaged run is overwritten with: zeros, headers, headers shifted
\* by one byte.
OverwriteFills == {<<0, 0>>, header, <<header[2], header[1]>>}

\* The stuffed sizes of the records of a file f written by appends alone:
\* what lies between two offsets of aux.starts, less the header that ends it.
StuffedSize(f, i) ==
    (IF i < Len(aux.starts) THEN aux.starts[i + 1] ELSE Len(f))
        - aux.starts[i] - CRDB_WORD_STUFF_HEADER_SIZE

RECURSIVE SumStuffed(_, _)
SumStuffed(f, n) == IF n = 0 THEN 0 ELSE StuffedSize(f, n) + SumStuffed(f, n - 1)

AverageStuffed(f) == SumStuffed(f, Len(aux.starts)) \div Len(aux.starts)

SmallestStuffed(f) ==
    CHOOSE k \in {StuffedSize(f, i) : i \in 1..Len(aux.starts)} :
        \A i \in 1..Len(aux.starts) : k <= StuffedSize(f, i)

CorruptInit == StreamStart("corrupt")

\* crdb_record_stream_iterator_deinit(it): the reader closes its iterator,
\* keeping what it has read.
Deinit ==
    /\ pc = "ended"
    /\ \/ kind \in {"corrupt", "append"} /\ runs = <<>>
       \/ kind = "partition" /\ Len(runs) < 2
    /\ runs' = Append(runs, yielded)
    /\ it' = NoIt
    /\ last' = NoLast
    /\ yielded' = <<>>
    /\ pc' = "closed"
    /\ UNCHANGED <<kind, codecVars, file, log, aborted, aux>>

\* A run of n bytes at offset `at` of the file is overwritten, n being at
\* most the average stuffed size of the records.
Overwrite ==
    /\ pc = "closed"
    /\ kind = "corrupt"
    /\ Len(runs) = 1
    /\ Len(log) > 0
    /\ \E at \in 0..(Len(file) - 1), fill \in OverwriteFills :
          \E n \in 1..Min(AverageStuffed(file), Len(file) - at) :
              /\ file' = [i \in 1..Len(file) |->
                             IF at < i /\ i <= at + n
                             THEN fill[((i - at - 1) % 2) + 1]
                             ELSE file[i]]
              /\ aux' = [aux EXCEPT !.at = at, !.len = n, !.orig = file]
    /\ pc' = "damaged"
    /\ UNCHANGED <<kind, codecVars, log, it, last, yielded, runs, aborted>>

CorruptNext ==
    AppendDamaged \/ IterInitFd \/ NextBuf \/ Deinit \/ Overwrite

SpecCorrupt == CorruptInit /\ [][CorruptNext]_vars

RECURSIVE IsSubseq(_, _)
\* a is b with some of its elements left out.
IsSubseq(a, b) ==
    IF a = <<>> THEN TRUE
    ELSE IF b = <<>> THEN FALSE
    ELSE IF a[1] = b[1] THEN IsSubseq(Tail(a), Tail(b))
    ELSE IsSubseq(a, Tail(b))

RECURSIVE Without(_, _, _)
\* The sequence q from index i on, less the elements at the indices of D.
Without(q, D, i) ==
    IF i > Len(q) THEN <<>>
    ELSE (IF i \in D THEN <<>> ELSE <<q[i]>>) \o Without(q, D, i + 1)

\* The iteration of the damaged file yields the records of q in their
\* order, but for at most two of them.
MissesAtMostTwo(q) ==
    \E D \in SUBSET (1..Len(q)) :
        /\ Cardinality(D) <= 2
        /\ IsSubseq(Without(q, D, 1), yielded)

-----------------------------------------------------------------------------
(* A reader iterates over a whole file, then over the part before an       *)
(* offset with one iterator and over the part from that offset on with     *)
(* another.                                                                *)

MaxSplit == 2

RECURSIVE Written(_, _)
\* The file f after the records of l are appended to it, every write
\* completing in full.
Written(f, l) ==
    IF l = <<>> THEN f
    ELSE Written(crdb_record_stream_append_buf(f, l[1][1], l[1][2], FullWrites).file,
                 Tail(l))

\* Files written by appends, with or without a first header; the same
\* after a range that does not verify; and bytes that hold no record.
SplitBodies ==
    {Written(f, l) : f \in {<<>>, header, BadCrc \o header},
                     l \in SeqsUpTo(DamageRecords, MaxSplit)}
        \cup Junk

\* Each of them behind zero bytes or not, cut inside its last header or not.
PartitionFiles ==
    {z \o b \o t : z \in {<<>>, <<0>>}, b \in SplitBodies, t \in {<<>>, <<header[1]>>}}

PartitionInit == ReaderStart("partition", PartitionFiles)

\* crdb_record_stream_iterator_stop_at(it, o), for an offset o in the stream.
StopAt ==
    /\ pc = "stop"
    /\ \E o \in 0..crdb_record_stream_iterator_size(it) :
          /\ it' = crdb_record_stream_iterator_stop_at(it, o)
          /\ aux' = [aux EXCEPT !.split = o]
    /\ pc' = "iter"
    /\ UNCHANGED <<kind, codecVars, file, log, last, yielded, runs, aborted>>

\* crdb_record_stream_iterator_locate_at(it, o) on a fresh iterator, o being
\* the offset the other iterator stopped at.
LocateAt ==
    /\ pc = "locate"
    /\ it' = crdb_record_stream_iterator_locate_at(it, aux.split).it
    /\ pc' = "iter"
    /\ UNCHANGED <<kind, codecVars, file, log, last, yielded, runs, aborted, aux>>

PartitionNext == IterInitFd \/ NextBuf \/ Deinit \/ StopAt \/ LocateAt

SpecPartition == PartitionInit /\ [][PartitionNext]_vars

\* C8: for every split offset o from 0 to the size of the stream, what an
\* iterator yields after stop_at(o), followed by what a fresh iterator
\* yields after locate_at(o), is the sequence an iteration of the whole
\* stream yields.
C8_Partitioning ==
    (kind = "partition" /\ pc = "ended" /\ Len(runs) = 2) =>
        runs[2] \o yielded = runs[1]

\* A split between the two bytes of a header, with records on both sides.
C8_Witness ==
    /\ kind = "partition"
    /\ pc = "ended"
    /\ Len(runs) = 2
    /\ HeaderAt(file, aux.split - 1)
    /\ runs[2] # <<>>
    /\ yielded # <<>>

-----------------------------------------------------------------------------
(* A single writer calls append_initial and append_buf on a file that may  *)
(* hold anything, its writes failing or coming out short; a reader         *)
(* iterates over the file before and after the calls.                      *)

MaxCalls == 2

\* The bytes a short write takes: one, or the nine of the stuffed envelope
\* of a record with an empty payload.
ShortWrites == {1, 9}

\* What the kernel does with one write: an error, nothing, a short write,
\* or all of it.
WriteOutcomes == {-1, 0} \cup ShortWrites \cup {WriteAll}

Tries == [1..(num_tries + 1) -> WriteOutcomes]

\* A payload of the greatest length, and one a byte longer.
LongestPayload == Fill(CRDB_RECORD_STREAM_MAX_LEN, 1)

TooLong == Fill(CRDB_RECORD_STREAM_MAX_LEN + 1, 1)

AppendRecords ==
    DamageRecords \cup {<<U32(7), LongestPayload>>, <<U32(7), TooLong>>}

\* The stuffed envelope of a record.
StuffedRecord(r) == crdb_word_stuff_encode(Envelope(r)).out

\* What the file holds before the calls: nothing, one byte, a lone first
\* byte of a header, a header, records whole or torn, a torn header.
PriorFiles ==
    {<<>>, <<0>>, <<1>>, <<header[1]>>, header,
     StuffedRecord(<<U32(82165), <<>>>>) \o header,
     header \o StuffedRecord(<<U32(7), <<1, 2, 3>>>>),
     header \o StuffedRecord(<<U32(7), <<1, 2, 3>>>>) \o <<header[1]>>,
     header \o StuffedRecord(<<U32(7), <<1, 2, 3>>>>) \o header
         \o Take(StuffedRecord(<<U32(7), <<>>>>), 5)}

\* No call was made yet.
NoCall ==
    [call |-> "none", before |-> <<>>, record |-> <<>>, buf |-> <<>>,
     w |-> FullWrites, ret |-> TRUE, tries |-> 0, best_effort |-> FALSE,
     error |-> "none", asserts |-> TRUE, calls |-> 0, prior |-> <<>>,
     prev |-> "none", prev_w |-> FullWrites, clean |-> TRUE]

AppendInit ==
    /\ pc = "closed"
    /\ kind = "append"
    /\ src = <<>>
    /\ enc = NoEnc
    /\ dec = NoDec
    /\ file \in PriorFiles
    /\ log = <<>>
    /\ it = NoIt
    /\ last = NoLast
    /\ yielded = <<>>
    /\ runs = <<>>
    /\ aborted = FALSE
    /\ aux = NoCall

\* The writer makes a call once the reader has gone over the file, and
\* makes another only after a call that succeeded: an append_initial, or
\* an append_buf whose writes all completed.
CallAllowed ==
    /\ pc = "closed"
    /\ kind = "append"
    /\ Len(runs) = 1
    /\ aux.calls < MaxCalls
    /\ aux.ret
    /\ aux.clean \/ aux.call = "initial"

\* The outcomes w name nothing but the writes the call a made.
Canonical(a, w) ==
    /\ \A k \in 1..num_tries : k > a.tries => w[k] = WriteAll
    /\ w[num_tries + 1] \in (IF a.best_effort THEN {-1, 1, WriteAll} ELSE {WriteAll})

\* The outcomes of the writes of a call: those of at most one call of a
\* scenario, its first or its second, are failures or short writes.
CallTries == IF aux.clean /\ aux.prev = "none" THEN Tries ELSE {FullWrites}

\* The state after the call a, made with the outcomes w.
Called(call, r, buf, w, a) ==
    /\ Canonical(a, w)
    /\ file' = a.file
    /\ log' = IF a.ret /\ call = "buf" THEN Append(log, r) ELSE log
    /\ aux' = [call |-> call, before |-> file, record |-> r, buf |-> buf,
               w |-> w, ret |-> a.ret, tries |-> a.tries,
               best_effort |-> a.best_effort, error |-> a.error,
               asserts |-> a.asserts, calls |-> aux.calls + 1,
               prior |-> IF aux.calls = 0 THEN file ELSE aux.prior,
               prev |-> aux.call, prev_w |-> aux.w,
               clean |-> aux.clean /\ w = FullWrites]
    /\ UNCHANGED <<pc, kind, codecVars, it, last, yielded, runs, aborted>>

\* crdb_record_stream_append_initial(fd), its writes having the outcomes w.
InitialCall ==
    /\ CallAllowed
    /\ \E w \in CallTries :
          \E a \in {crdb_record_stream_append_initial(file, w)} :
              Called("initial", <<>>, header, w, a)

\* crdb_record_stream_append_buf(fd, generation, buf, len), its writes
\* having the outcomes w.
BufCall ==
    /\ CallAllowed
    /\ \E r \in AppendRecords, w \in CallTries :
          /\ Len(r[2]) > 3 => w = FullWrites
          /\ \E a \in {crdb_record_stream_append_buf(file, r[1], r[2], w)} :
                Called("buf", r, encode_record(r[1], r[2]).encoded, w, a)

AppendNext == IterInitFd \/ NextBuf \/ Deinit \/ InitialCall \/ BufCall

SpecAppend == AppendInit /\ [][AppendNext]_vars

\* The file ends with a header.
EndsWithHeader(f) ==
    /\ Len(f) >= 2
    /\ f[Len(f) - 1] = 254
    /\ f[Len(f)] = 253

\* C11: after a call of append_initial or append_buf that returns success,
\* whatever failed or short attempts came before the one that completed,
\* the last two bytes of the file are the header FE FD.
C11_TrailingMarker ==
    (kind = "append" /\ aux.call # "none" /\ aux.ret) => EndsWithHeader(file)

\* append_buf succeeds at its third attempt, after a short write and a
\* failed one.
C11_Witness ==
    /\ kind = "append"
    /\ aux.call = "buf"
    /\ aux.ret
    /\ aux.tries = 3
    /\ aux.w[1] = 1
    /\ aux.w[2] = -1

RECURSIVE ShortBefore(_, _, _)
\* What attempt k of an append of buf is asked to write: buf alone, or the
\* header and buf once an earlier attempt was short.
Asked(buf, w, k) == IF ShortBefore(buf, w, k) THEN <<254, 253>> \o buf ELSE buf

\* The number of bytes write k took, given its outcome w[k].
Taken(w, k, asked) ==
    IF w[k] < 0 THEN 0 ELSE IF w[k] < Len(asked) THEN w[k] ELSE Len(asked)

\* An attempt before attempt k wrote some of its bytes and not all.
ShortBefore(buf, w, k) ==
    \E j \in 1..(k - 1) :
        /\ Taken(w, j, Asked(buf, w, j)) > 0
        /\ Taken(w, j, Asked(buf, w, j)) < Len(Asked(buf, w, j))

\* Attempt k wrote all it was asked to.
Completes(buf, w, k) == Taken(w, k, Asked(buf, w, k)) = Len(Asked(buf, w, k))

\* The attempts made: up to the first that completes, three at most.
Attempts(buf, w) ==
    {k \in 1..3 : \A j \in 1..(k - 1) : ~Completes(buf, w, j)}

RECURSIVE AttemptsWrote(_, _, _)
\* The bytes the attempts from k on added to the file.
AttemptsWrote(buf, w, k) ==
    IF k \notin Attempts(buf, w) THEN <<>>
    ELSE Take(Asked(buf, w, k), Taken(w, k, Asked(buf, w, k)))
             \o AttemptsWrote(buf, w, k + 1)

\* No attempt completed, and one was short.
FailedAfterShort(buf, w) ==
    /\ \A k \in 1..3 : ~Completes(buf, w, k)
    /\ ShortBefore(buf, w, 4)

\* The bytes of the best-effort write of a header.
BestEffortWrote(buf, w) ==
    IF FailedAfterShort(buf, w) THEN Take(<<254, 253>>, Taken(w, 4, <<254, 253>>))
    ELSE <<>>

\* The last call reached append_to_fd.
Wrote == kind = "append" /\ aux.call # "none" /\ aux.tries > 0

\* C12: the first attempt of an append writes the buffer without a header;
\* after an attempt that wrote some bytes and not all, every later attempt
\* writes the header and the whole buffer, while an attempt that wrote
\* nothing leaves the next one unchanged; the append succeeds if and only
\* if an attempt wrote all it was asked to; and the record of a successful
\* append_buf on a file that was empty or ended with a header is yielded
\* by a later full iteration.
C12_RetryAfterShortWrite ==
    Wrote =>
        /\ file = aux.before \o AttemptsWrote(aux.buf, aux.w, 1)
                             \o BestEffortWrote(aux.buf, aux.w)
        /\ aux.ret <=> (\E k \in 1..3 : Completes(aux.buf, aux.w, k))
        /\ ( /\ aux.ret
             /\ aux.call = "buf"
             /\ aux.before = <<>> \/ EndsWithHeader(aux.before)
             /\ pc = "ended" )
           => \E k \in 1..Len(yielded) : yielded[k] = aux.record

\* C13: an append makes at most three gather writes and at most one more
\* write, of a header alone; when it fails after a short attempt it makes
\* that write, whose outcome changes neither the value returned nor the
\* error; and it returns, failing no assertion.
C13_BoundedRetry ==
    Wrote =>
        /\ aux.tries <= 3
        /\ aux.asserts
        /\ aux.best_effort <=> (~aux.ret /\ ShortBefore(aux.buf, aux.w, 4))
        /\ Len(file) <= Len(aux.before) + Len(AttemptsWrote(aux.buf, aux.w, 1)) + 2
        /\ \A o \in WriteOutcomes :
              \E b \in {append_to_fd(aux.before, aux.buf,
                                     [aux.w EXCEPT ![num_tries + 1] = o])} :
                  /\ b.ret = aux.ret
                  /\ b.error = aux.error
                  /\ b.tries = aux.tries

\* An append fails after three attempts of which one was short, and its
\* best-effort write fails too.
C13_Witness ==
    /\ Wrote
    /\ ~aux.ret
    /\ aux.tries = 3
    /\ aux.w[2] = 1
    /\ aux.best_effort
    /\ aux.w[4] = -1

\* Every gather write of the last call returned -1.
AllFailed == Wrote /\ \A k \in 1..3 : aux.w[k] = -1

\* C14, as stated: when every gather write of an append returns -1, the
\* append attempts a best-effort write of a header and returns an error.
C14_BestEffortAfterFailure ==
    AllFailed => (aux.best_effort /\ ~aux.ret)

\* C14, amended: when every gather write of an append returns -1, the
\* append returns the error of the write, makes no further write and leaves
\* the file as it was.
C14_ErrorWithoutWrite ==
    AllFailed =>
        /\ ~aux.ret
        /\ aux.error = "write failed"
        /\ ~aux.best_effort
        /\ file = aux.before

\* An append_buf whose three gather writes returned -1.
C14_Witness ==
    /\ AllFailed
    /\ aux.call = "buf"
    /\ aux.tries = 3

\* C15: append_buf with a payload of more than 512 bytes returns failure and
\* writes nothing, the file staying as it was; a payload of exactly 512
\* bytes is accepted and written.
C15_InputTooLarge ==
    (kind = "append" /\ aux.call = "buf") =>
        /\ Len(aux.record[2]) > 512 =>
              /\ ~aux.ret
              /\ aux.tries = 0
              /\ ~aux.best_effort
              /\ file = aux.before
        /\ Len(aux.record[2]) = 512 =>
              /\ aux.ret
              /\ aux.asserts
              /\ file = aux.before \o StuffedRecord(aux.record) \o <<254, 253>>

\* append_buf is given 513 bytes for a file that holds a record.
C15_Witness ==
    /\ kind = "append"
    /\ aux.call = "buf"
    /\ Len(aux.record[2]) = 513
    /\ Len(aux.before) > 2

\* Every call so far was an append_initial whose writes completed, on a
\* file that was empty at first.
OnlyInitialCalls ==
    /\ kind = "append"
    /\ aux.call = "initial"
    /\ aux.prior = <<>>
    /\ aux.clean
    /\ aux.ret
    /\ log = <<>>

\* C16: append_initial on a file that ends with the header writes nothing;
\* hence any number of calls on an empty file leave the file one call
\* leaves, a single header, and an iteration of it yields no record.
C16_InitialIdempotent ==
    /\ (kind = "append" /\ aux.call = "initial" /\ EndsWithHeader(aux.before)) =>
          (aux.ret /\ aux.tries = 0 /\ file = aux.before)
    /\ OnlyInitialCalls =>
          /\ file = <<254, 253>>
          /\ pc = "ended" => yielded = <<>>

\* The file was iterated over after a second append_initial on a file that
\* was empty.
C16_Witness ==
    /\ OnlyInitialCalls
    /\ aux.calls = 2
    /\ pc = "ended"

\* append_buf succeeded after an append_initial that succeeded.
InitialThenBuf ==
    /\ kind = "append"
    /\ aux.call = "buf"
    /\ aux.prev = "initial"
    /\ aux.ret

\* C17: whatever the file held, after a successful append_initial followed
\* by a successful append_buf(g, p) a full iteration yields (g, p) as its
\* last record, and the records yielded before the two calls are still
\* yielded, in the same order.
C17_InitialMakesReady ==
    (InitialThenBuf /\ pc = "ended") =>
        /\ yielded # <<>>
        /\ yielded[Len(yielded)] = aux.record
        /\ IsSubseq(runs[1], SubSeq(yielded, 1, Len(yielded) - 1))

\* One record was appended to an empty file, every write completing.
OneAppend ==
    /\ kind = "append"
    /\ aux.call = "buf"
    /\ aux.prior = <<>>
    /\ aux.clean
    /\ aux.ret
    /\ Len(log) = 1

\* C18, as stated: appending one record to an empty file leaves the header,
\* then the stuffed envelope, then the header.
C18_HeaderOnBothSides ==
    OneAppend => file = <<254, 253>> \o StuffedRecord(aux.record) \o <<254, 253>>

\* C18, amended: appending one record to an empty file leaves the stuffed
\* envelope, then the header; the file starts with a header too only when
\* append_initial was called before.
C18_FileLayout ==
    OneAppend =>
        file = (IF aux.prev = "initial" THEN <<254, 253>> ELSE <<>>)
                   \o StuffedRecord(aux.record) \o <<254, 253>>

\* A record appended to an empty file with no append_initial before.
C18_Witness ==
    /\ OneAppend
    /\ aux.prev = "none"
    /\ aux.record[2] # <<>>

-----------------------------------------------------------------------------
(* A reader iterates over a file that starts with zero bytes, followed by  *)
(* the stuffed envelope of one record and a header.                        *)

MaxZeros == 2

\* z zero bytes, the stuffed envelope of r with no header before it, and a
\* header.
ZeroLed(z, r) == Fill(z, 0) \o StuffedRecord(r) \o header

ZeroFiles == {ZeroLed(z, r) : z \in 0..MaxZeros, r \in StreamRecords}

ZerosInit == ReaderStart("zeros", ZeroFiles)

ZerosNext == IterInitFd \/ NextBuf

SpecZeros == ZerosInit /\ [][ZerosNext]_vars

\* C19: a file made of z zero bytes, then the stuffed envelope of a record
\* with no header before it, then a header, is iterated through
\* iterator_init_fd and next_buf as exactly that one record, whatever the
\* record, the first bytes of its envelope and z.
C19_LeadingZerosSkipped ==
    (kind = "zeros" /\ pc = "ended") =>
        \A z \in 0..MaxZeros, r \in StreamRecords :
            file = ZeroLed(z, r) => yielded = <<r>>

\* C20: crdb_record_stream_iterator_size returns the number of bytes of the
\* stream in every state of the iterator, unchanged by next_buf, locate_at
\* and stop_at, also after next_buf has signalled the end.
C20_SizeStable ==
    (kind = "partition" /\ pc \in {"stop", "locate", "iter", "ended"}) =>
        crdb_record_stream_iterator_size(it) = Len(file)

-----------------------------------------------------------------------------
(* The iterator seen from its caller and step by step.                     *)

\* The caller has set no bound and no start, and next has made no step.
NoScan ==
    [stop |-> -1, start |-> -1, located |-> FALSE, before |-> NoIt,
     steps |-> 0, headers |-> <<>>]

MaxScanned == 1

ScanRecords == {<<U32(7), <<>>>>, <<U32(82165), <<>>>>}

\* Files written by appends, with or without a first header or after a
\* range that does not verify, behind a zero byte or not, cut inside the
\* last header or not.
ScanFiles ==
    {z \o Written(f, l) \o t :
        z \in {<<>>, <<0>>}, f \in {<<>>, header, BadCrc \o header},
        l \in SeqsUpTo(ScanRecords, MaxScanned), t \in {<<>>, <<header[1]>>}}

ScanInit ==
    /\ pc = "closed"
    /\ kind = "scan"
    /\ src = <<>>
    /\ enc = NoEnc
    /\ dec = NoDec
    /\ file \in ScanFiles
    /\ log = <<>>
    /\ it = NoIt
    /\ last = NoLast
    /\ yielded = <<>>
    /\ runs = <<>>
    /\ aborted = FALSE
    /\ aux = NoScan

\* crdb_record_stream_iterator_stop_at(it, o) on the new iterator, for every
\* offset up to one past the size of the stream.
ScanStopAt ==
    /\ pc = "bound"
    /\ \E o \in 0..(Len(file) + 1) :
          /\ it' = crdb_record_stream_iterator_stop_at(it, o)
          /\ aux' = [aux EXCEPT !.stop = o]
    /\ pc' = "position"
    /\ UNCHANGED <<kind, codecVars, file, log, last, yielded, runs, aborted>>

\* crdb_record_stream_iterator_locate_at(it, o) after it, for every offset
\* up to one past the size of the stream.
ScanLocateAt ==
    /\ pc = "position"
    /\ \E o \in 0..(Len(file) + 1) :
          \E l \in {crdb_record_stream_iterator_locate_at(it, o)} :
              /\ it' = l.it
              /\ aux' = [aux EXCEPT !.start = o, !.located = l.ret, !.before = it]
    /\ pc' = "scan"
    /\ UNCHANGED <<kind, codecVars, file, log, last, yielded, runs, aborted>>

\* One turn of the loop of record_stream_iterator_next: a call of
\* record_stream_iterator_next_record.  When it has a record next_buf
\* returns it, and the caller calls next_buf again.
ScanStep ==
    /\ pc = "scan"
    /\ it.cursor < it.stop_at
    /\ \E n \in {record_stream_iterator_next_record(file, it)} :
          \E b \in {next_buf_copy(n)} :
              /\ it' = n.it
              /\ aborted' = (b.fault # "none")
              /\ pc' = IF b.fault # "none" THEN "aborted" ELSE "scan"
              /\ last' = [ret |-> b.ret, generation |-> b.generation,
                          data |-> b.data, len |-> b.len]
              /\ yielded' = IF b.ret THEN Append(yielded, <<b.generation, b.data>>)
                            ELSE yielded
              /\ aux' = [aux EXCEPT
                            !.steps = @ + 1,
                            !.headers = IF b.ret THEN Append(@, n.it.header - n.it.begin)
                                        ELSE @]
    /\ UNCHANGED <<kind, codecVars, file, log, runs>>

\* The loop of record_stream_iterator_next is left: next_buf returns false.
ScanEnd ==
    /\ pc = "scan"
    /\ ~(it.cursor < it.stop_at)
    /\ it' = [it EXCEPT !.cursor = NULL, !.end = NULL]
    /\ last' = NoLast
    /\ pc' = "ended"
    /\ UNCHANGED <<kind, codecVars, file, log, yielded, runs, aborted, aux>>

ScanNext == IterInitFd \/ ScanStopAt \/ ScanLocateAt \/ ScanStep \/ ScanEnd

\* ENABLED ScanStep: the step has a next state whenever the loop condition
\* of record_stream_iterator_next holds.
ScanPending == pc = "scan" /\ it.cursor < it.stop_at

\* The reader's thread keeps running: every call it has to make it makes.
\* The last conjunct is WF_vars(ScanStep) with ENABLED written out.
ScanFair ==
    /\ WF_vars(IterInitFd \/ ScanStopAt \/ ScanLocateAt \/ ScanEnd)
    /\ ([]<>(~ScanPending) \/ []<><<ScanStep>>_vars)

SpecScan == ScanInit /\ [][ScanNext]_vars /\ ScanFair

\* A step of the scan moves the iterator forward.
Advances ==
    \/ it'.cursor > it.cursor
    \/ it.first_record /\ ~it'.first_record
    \/ it'.cursor = it'.end

\* C22: for every stream content and every setting of stop_at and locate_at,
\* each step of the scan strictly advances the cursor, or consumes the
\* first_record flag, or pins the cursor at end; no step fails an assertion,
\* and the iteration reaches its end after finitely many steps.
C22_ForwardProgress ==
    /\ [][ScanStep => (Advances /\ ~aborted')]_vars
    /\ <>(pc = "ended")

\* The end is reached after a step that skipped a range and a step that
\* yielded a record, under a bound and a start the caller chose.
C22_Witness ==
    /\ kind = "scan" /\ pc = "ended"
    /\ aux.located /\ aux.start > 0 /\ aux.stop < Len(file)
    /\ aux.steps > Len(yielded) /\ yielded # <<>>

\* The offset the iteration stops at.
StopOffset == it.stop_at - it.begin

\* Where the stuffed bytes of a record whose first byte is at offset h of f
\* start: after its header, or at h for a first record without a header.
DataStarts(f, h) ==
    {h + CRDB_WORD_STUFF_HEADER_SIZE : o \in {k \in {h} : HeaderAt(f, k)}}
        \cup {o \in {h} : o = LeadingZeros(f)}

\* C23: with a stop offset set, every record next yields has its first byte
\* (the first byte of its header, or the first non-zero byte for a first
\* record without a header) strictly before stop_at, and is what the codec
\* decodes from all the bytes between that header and the next one, whether
\* or not they lie before stop_at.
C23_StopAtByFirstByte ==
    (kind = "scan" /\ pc \in {"scan", "ended"}) =>
        \A k \in 1..Len(yielded) :
            /\ aux.headers[k] < StopOffset
            /\ \E a \in DataStarts(file, aux.headers[k]) :
                  \E d \in {crdb_word_stuff_decode(file, a, RangeEnd(file, a) - a)} :
                      /\ d.ok
                      /\ yielded[k] = <<SubSeq(d.out, 5, 8), Drop(d.out, RECORD_HEADER_SIZE)>>

\* A record is yielded whose header has its first byte before stop_at and
\* its second byte at it.
C23_Witness ==
    /\ kind = "scan" /\ pc = "ended"
    /\ yielded # <<>>
    /\ aux.headers[Len(yielded)] = StopOffset - 1
    /\ HeaderAt(file, StopOffset - 1)
    /\ StopOffset < Len(file)

\* C24: locate_at with an offset below the offset of the first non-zero
\* byte or above the stop offset returns false and leaves every field of the
\* iterator as it was; with any other offset it returns true, sets the cursor
\* to begin + offset, and sets first_record to true when the offset is that
\* of the first non-zero byte and to false otherwise.
C24_LocateAt ==
    [][ScanLocateAt =>
          IF \/ aux'.start < it.first_nonzero - it.begin
             \/ aux'.start > it.stop_at - it.begin
          THEN ~aux'.located /\ it' = it
          ELSE /\ aux'.located
               /\ it'.cursor = it.begin + aux'.start
               /\ it'.first_record = (aux'.start = it.first_nonzero - it.begin)]_vars

\* locate_at has returned true for the offset of the first non-zero byte,
\* behind a zero byte, with a stop offset inside the file.
C24_Witness ==
    /\ kind = "scan" /\ pc = "scan" /\ aux.steps = 0
    /\ aux.located /\ it.first_record
    /\ aux.start = LeadingZeros(file) /\ aux.start > 0
    /\ StopOffset < Len(file)

\* C21: when next_buf returns false its generation and length outputs are
\* both 0; when it returns true they are the generation stored in the range
\* it decoded and the decoded length minus 8, so that a record with an
\* empty payload is returned as true with length 0.
C21_NextBufOutputs ==
    (kind = "locality" /\ pc \in {"iter", "ended"}) =>
        /\ ~last.ret => (last.generation = <<0, 0, 0, 0>> /\ last.len = 0)
        /\ last.ret =>
              \E a \in RangeStarts(file) :
                  /\ a <= Len(file)
                  /\ RangeEnd(file, a) = it.cursor - it.begin
                  /\ \E d \in {crdb_word_stuff_decode(file, a, RangeEnd(file, a) - a)} :
                        /\ d.ok
                        /\ last.generation = SubSeq(d.out, 5, 8)
                        /\ last.len = Len(d.out) - 8
                        /\ last.len = Len(last.data)

\* A record with an empty payload was returned, and then the end.
C21_Witness ==
    /\ kind = "locality"
    /\ pc = "ended"
    /\ ~last.ret
    /\ yielded # <<>>
    /\ yielded[Len(yielded)][2] = <<>>

\* The record whose stuffed envelope is Oversize.
OversizeRecord == <<U32(7), LongestRead \o <<1>>>>

\* C25: a range of more than 1024 bytes between two headers is never
\* yielded, even when it is a stuffed envelope whose CRC verifies, and the
\* records planted after it are yielded; a stuffed envelope of at most 1024
\* bytes whose CRC verifies is yielded although its payload is longer than
\* 512 bytes; no payload yielded exceeds 1024 bytes and the assertion in
\* next_buf never fails.
C25_ReadBound ==
    kind = "locality" =>
        /\ ~aborted
        /\ \A k \in 1..Len(yielded) :
              /\ Len(yielded[k][2]) <= CRDB_RECORD_STREAM_BUF_LEN
              /\ yielded[k] # OversizeRecord
        /\ pc = "ended" =>
              /\ Planted(file, <<U32(7), LongestRead>>) =>
                    \E k \in 1..Len(yielded) : yielded[k] = <<U32(7), LongestRead>>
              /\ (BytesAt(file, 0, Oversize) \/ BytesAt(file, 0, header \o Oversize)) =>
                    \A r \in LocalityRecords :
                        Planted(file, r) => \E k \in 1..Len(yielded) : yielded[k] = r

\* Behind a header and a range of 1025 bytes that verifies, the record with
\* a payload of more than 512 bytes and 1024 stuffed bytes was yielded, and
\* nothing else.
C25_Witness ==
    /\ kind = "locality"
    /\ pc = "ended"
    /\ BytesAt(file, 0, header \o Oversize)
    /\ Len(yielded) = 1
    /\ Len(yielded[1][2]) > CRDB_RECORD_STREAM_MAX_LEN
    /\ Len(Stuffed[yielded[1]]) = CRDB_RECORD_STREAM_BUF_LEN

-----------------------------------------------------------------------------
(* The sizes of stuffed bytes. *)

\* The sizes up to two full later runs after a full first run.
SizesChecked == 0..(MAX_INITIAL_RUN + 2 * MAX_REMAINING_RUN + 1)

\* The assertions of crdb_word_stuffed_size hold for each of these sizes.
SizeAssertsHold ==
    \A n \in SizesChecked :
        /\ crdb_word_stuffed_size_asserts(n, TRUE)
        /\ crdb_word_stuffed_size_asserts(n, FALSE)

\* What append_buf writes for each payload length it accepts, by
\* crdb_word_stuffed_size: the assertion of encode_record holds and the
\* buffer is within what the reader accepts.
WrittenFits ==
    \A n \in 0..CRDB_RECORD_STREAM_MAX_LEN :
        /\ crdb_word_stuffed_size(RECORD_HEADER_SIZE + n, TRUE) <= MAX_ENCODED
        /\ crdb_word_stuffed_size(RECORD_HEADER_SIZE + n, FALSE)
               + CRDB_WORD_STUFF_HEADER_SIZE <= CRDB_RECORD_STREAM_BUF_LEN

\* The buffer encode_record makes of the longest payload.
LongestWritten == encode_record(U32(7), LongestPayload)

\* C26: the output of crdb_word_stuff_encode for an input of n bytes is at
\* most crdb_word_stuffed_size(n, false) bytes, exactly that many when the
\* input holds no header, and that is at most CRDB_WORD_STUFFED_BOUND(n);
\* the assertions of crdb_word_stuffed_size and encode_record hold; and the
\* buffer append_buf writes for a payload of at most 512 bytes is at most
\* 1024 bytes.
C26_StuffedSizeBound ==
    /\ (kind = "roundtrip" /\ pc \in {"encoded", "done"}) =>
          /\ enc.asserts
          /\ Len(enc.out) <= crdb_word_stuffed_size(Len(src), FALSE)
          /\ crdb_word_stuffed_size(Len(src), FALSE) <= CRDB_WORD_STUFFED_BOUND(Len(src))
          /\ ~HasHeader(src) =>
                Len(enc.out) = crdb_word_stuffed_size(Len(src), FALSE)
    /\ SizeAssertsHold
    /\ WrittenFits
    /\ LongestWritten.asserts
    /\ Len(LongestWritten.encoded) <= CRDB_RECORD_STREAM_BUF_LEN

\* An input without a header that fills the first run and a later run was
\* encoded to exactly crdb_word_stuffed_size bytes.
C26_Witness ==
    /\ kind = "roundtrip"
    /\ pc = "encoded"
    /\ ~HasHeader(src)
    /\ Len(src) >= MAX_INITIAL_RUN + MAX_REMAINING_RUN
    /\ Len(enc.out) = Len(src) + 5

-----------------------------------------------------------------------------
(* What crdb_word_stuff_decode rejects and accepts. *)

\* The offset in e of the length field after the first run, and the bytes
\* from there on, when the first length byte is in range and its run fits.
SecondField(e) == 1 + e[1]

Rest(e) == Len(e) - SecondField(e)

\* The value of that field.
SecondRun(e) == e[SecondField(e) + 1] + RADIX * e[SecondField(e) + 2]

FirstRunFits(e) == e # <<>> /\ e[1] <= MAX_INITIAL_RUN /\ Rest(e) >= 0

\* e has a second length field.
HasSecond(e) == FirstRunFits(e) /\ Rest(e) >= CRDB_WORD_STUFF_HEADER_SIZE

\* The first length byte is above 252, or a two-byte length field above 64008.
LengthAboveMaximum(e) ==
    \/ e # <<>> /\ e[1] > MAX_INITIAL_RUN
    \/ HasSecond(e) /\ SecondRun(e) > MAX_REMAINING_RUN

\* A run length is larger than the input left after its length field.
RunPastEnd(e) ==
    \/ e # <<>> /\ e[1] > Len(e) - 1
    \/ HasSecond(e) /\ SecondRun(e) > Rest(e) - CRDB_WORD_STUFF_HEADER_SIZE

\* e ends right after a run of the greatest length.
EndsAfterFullRun(e) ==
    \/ FirstRunFits(e) /\ e[1] = MAX_INITIAL_RUN /\ Rest(e) = 0
    \/ /\ HasSecond(e)
       /\ SecondRun(e) = MAX_REMAINING_RUN
       /\ Rest(e) = CRDB_WORD_STUFF_HEADER_SIZE + MAX_REMAINING_RUN

\* e stops inside a two-byte length field after a full first run.
StopsInsideField(e) == FirstRunFits(e) /\ e[1] = MAX_INITIAL_RUN /\ Rest(e) = 1

\* A run shorter than the greatest length is followed by exactly one byte.
OneByteAfterShortRun(e) ==
    \/ FirstRunFits(e) /\ e[1] < MAX_INITIAL_RUN /\ Rest(e) = 1
    \/ /\ HasSecond(e)
       /\ SecondRun(e) < MAX_REMAINING_RUN
       /\ Rest(e) = CRDB_WORD_STUFF_HEADER_SIZE + SecondRun(e) + 1

Malformed(e) ==
    \/ e = <<>>
    \/ LengthAboveMaximum(e)
    \/ RunPastEnd(e)
    \/ EndsAfterFullRun(e)
    \/ StopsInsideField(e)
    \/ OneByteAfterShortRun(e)

\* C27: crdb_word_stuff_decode returns NULL for the empty input, for a
\* first length byte above 252 or a two-byte length field above 64008, for a
\* run length larger than the input that remains, for an input that ends
\* right after a run of the greatest length or inside a two-byte length
\* field, and for a short run followed by exactly one byte.
C27_RejectsMalformed ==
    (kind = "decode" /\ pc = "done" /\ Malformed(src)) => ~dec.ok

\* A two-byte length field of 64009 with 64009 bytes after it was rejected.
C27_Witness ==
    /\ kind = "decode"
    /\ pc = "done"
    /\ HasSecond(src)
    /\ SecondRun(src) > MAX_REMAINING_RUN
    /\ ~RunPastEnd(src)
    /\ ~dec.ok

\* C28: for every byte string e without a header that
\* crdb_word_stuff_decode accepts, crdb_word_stuff_encode of the decoded
\* bytes is e.
C28_PartialInverse ==
    (kind = "decode" /\ pc = "done" /\ dec.ok /\ ~HasHeader(src)) =>
        crdb_word_stuff_encode(dec.out).out = src

-----------------------------------------------------------------------------
(* What short writes and concurrent writers leave for the reader. *)

\* C29: whatever bytes the short writes of one call of append_buf leave in
\* the file, a later full iteration yields at most one record more than it
\* did before the call, and none more when the call failed.
C29_PartialNeverRead ==
    (kind = "append" /\ pc = "ended" /\ Len(runs) = 1
        /\ aux.calls = 1 /\ aux.call = "buf") =>
        Len(yielded) <= Len(runs[1]) + (IF aux.ret THEN 1 ELSE 0)

MaxWritten == 3

\* Two writers on the same file, each known by the generation it writes.
Writers == {1, 2}

WriterGeneration == <<7, 82165>>

WriterRecords ==
    [wr \in Writers |-> {<<U32(WriterGeneration[wr]), p>> : p \in {<<>>, <<1, 2, 3>>}}]

\* The file is empty or ends with a header.
WritersInit == ReaderStart("writers", {<<>>, header})

\* A call of crdb_record_stream_append_buf by the writer wr.  Its one
\* writev is complete, and the file being open in append mode the kernel
\* puts its bytes at the end of the file, after those of every write made
\* before.
WriterAppend(wr) == AppendRecord(WriterRecords[wr], MaxWritten)

WritersNext == (\E wr \in Writers : WriterAppend(wr)) \/ IterInitFd \/ NextBuf

SpecWriters == WritersInit /\ [][WritersNext]_vars

RECURSIVE OfWriter(_, _)
\* The records of q that the writer wr wrote, in their order in q.
OfWriter(q, wr) ==
    IF q = <<>> THEN <<>>
    ELSE (IF q[1][1] = U32(WriterGeneration[wr]) THEN <<q[1]>> ELSE <<>>)
             \o OfWriter(Tail(q), wr)

\* C30: the file being empty or ending with a header, and every write of
\* the writers being complete and atomic, a full iteration yields, for
\* every order of the writes, each record appended exactly once, those of
\* each writer in the order that writer appended them.
C30_ConcurrentWriters ==
    (kind = "writers" /\ pc = "ended") =>
        /\ Len(yielded) = Len(log)
        /\ \A wr \in Writers : OfWriter(yielded, wr) = OfWriter(log, wr)

-----------------------------------------------------------------------------
(* A single writer goes on appending after an append that failed, without  *)
(* calling append_initial.                                                 *)

MaxRecover == 2

RecoverRecords == {<<U32(7), <<>>>>, <<U32(7), <<1, 2, 3>>>>}

RecoverInit ==
    /\ pc = "closed"
    /\ kind = "recover"
    /\ src = <<>>
    /\ enc = NoEnc
    /\ dec = NoDec
    /\ file \in {<<>>, header}
    /\ log = <<>>
    /\ it = NoIt
    /\ last = NoLast
    /\ yielded = <<>>
    /\ runs = <<>>
    /\ aborted = FALSE
    /\ aux = NoCall

\* The writes of the first call may fail or be short; those of the calls
\* after it complete.
RecoverTries == IF aux.calls = 0 THEN Tries ELSE {FullWrites}

\* crdb_record_stream_append_buf(fd, generation, buf, len), whatever the
\* call before it returned.
RecoverBuf ==
    /\ pc = "closed"
    /\ kind = "recover"
    /\ aux.calls < MaxRecover
    /\ \E r \in RecoverRecords, w \in RecoverTries :
          \E a \in {crdb_record_stream_append_buf(file, r[1], r[2], w)} :
              Called("buf", r, encode_record(r[1], r[2]).encoded, w, a)

RecoverNext == RecoverBuf \/ IterInitFd \/ NextBuf

SpecRecover == RecoverInit /\ [][RecoverNext]_vars

\* C31: whatever writes of the calls before it failed or were short, and
\* without a call of append_initial, the record of every call of append_buf
\* that returns success is yielded by a later full iteration.
C31_SuccessRecoverable ==
    (kind = "recover" /\ pc = "ended") =>
        \A k \in 1..Len(log) : \E j \in 1..Len(yielded) : yielded[j] = log[k]

=============================================================================
